---- MODULE Spec2Model ----
(***************************************************************************)
(* Model of the PubMed baseline downloader                                 *)
(* (src/download_pubmed_baselines.py): the per-file worker                 *)
(* verify_and_download_file, run step by step by the threads of a          *)
(* ThreadPoolExecutor, and the retry loop and final check of               *)
(* download_all_pubmed_baseline_files.                                     *)
(*                                                                         *)
(* A file of the collection is identified by its sequence index i, which   *)
(* stands for the name pubmed<yy>n<i:04d>.xml.gz.  File contents are       *)
(* sequences of bytes; texts (checksum bodies, hex digests) are sequences  *)
(* of one-character strings.                                               *)
(***************************************************************************)
EXTENDS Integers, Sequences, FiniteSets, TLC

(* ------------------------------ bounds -------------------------------- *)
MaxFiles == 2          \* largest inventory count_remote_files may return
MaxRetriesArg == 2     \* largest --max_retries
MaxWorkersArg == 2     \* largest --max_workers
MaxLen == 1            \* longest file content, in bytes
MaxByte == 2           \* byte values are 1..MaxByte
MaxExternal == 1       \* removals by other processes during one run
MaxRuns == 2           \* invocations of the tool on the same directory

Bytes == 1..MaxByte
Files == 1..MaxFiles

RECURSIVE SeqsUpTo(_)
SeqsUpTo(n) ==
    IF n = 0 THEN {<<>>}
    ELSE LET S == SeqsUpTo(n - 1)
         IN S \cup {Append(s, b) : s \in {t \in S : Len(t) = n - 1}, b \in Bytes}

Contents == SeqsUpTo(MaxLen)

\* What the server may hold.  Byte values are interchangeable, so the server's
\* files are made of the first one; local files and transfers use them all.
RemoteContents == {c \in Contents : \A i \in DOMAIN c : c[i] = 1}

(* ----------------------------- checksums ------------------------------ *)
HexDigits == <<"0","1","2","3","4","5","6","7","8","9","a","b","c","d","e","f">>

RECURSIVE ToHex(_)
ToHex(n) ==
    IF n < 16 THEN <<HexDigits[n + 1]>>
    ELSE Append(ToHex(n \div 16), HexDigits[(n % 16) + 1])

\* The digest of a byte sequence after every update(data) call.
RECURSIVE md5_update(_, _)
md5_update(h, data) ==
    IF data = <<>> THEN h
    ELSE md5_update(h * (MaxByte + 1) + Head(data), Tail(data))

hexdigest(data) == ToHex(md5_update(0, data))

\* A file of the target directory: exists, and its bytes when it does.
NoFile == [exists |-> FALSE, data |-> <<>>]
FileOf(data) == [exists |-> TRUE, data |-> data]
LocalStates == {NoFile} \cup {FileOf(c) : c \in Contents}

\* calculate_md5(filepath): None when the file cannot be opened.
calculate_md5(file) ==
    IF file.exists THEN [none |-> FALSE, hex |-> hexdigest(file.data)]
    ELSE [none |-> TRUE, hex |-> <<>>]

\* local_hash == official_hash, where local_hash may be None.
HashEq(local_hash, official_hash) ==
    ~local_hash.none /\ local_hash.hex = official_hash

(* ------------------------ the checksum resource ----------------------- *)
IsSpace(c) == c \in {" ", "\n"}

RECURSIVE lstrip(_)
lstrip(t) == IF t # <<>> /\ IsSpace(Head(t)) THEN lstrip(Tail(t)) ELSE t

RECURSIVE rstrip(_)
rstrip(t) ==
    IF t # <<>> /\ IsSpace(t[Len(t)]) THEN rstrip(SubSeq(t, 1, Len(t) - 1)) ELSE t

strip(t) == rstrip(lstrip(t))

\* text.split('='): the pieces of t between the '=' characters.
RECURSIVE split_eq(_, _, _)
split_eq(t, cur, acc) ==
    IF t = <<>> THEN Append(acc, cur)
    ELSE IF Head(t) = "=" THEN split_eq(Tail(t), <<>>, Append(acc, cur))
    ELSE split_eq(Tail(t), Append(cur, Head(t)), acc)

split(t) == split_eq(t, <<>>, <<>>)

\* The body the server sends for <name>.md5: "MD5(<name>)= <digest>\n".
Md5Body(data) == <<"M", "D", "5", "=", " ">> \o hexdigest(data) \o <<"\n">>
\* A body without '=' (an error page served with status 200).
BadBody == <<"M", "D", "5">>

\* Line 53: md5_response.text.split('=')[1].strip(); IndexError without '='.
ParseOk(text) == Len(split(text)) >= 2
official_hash_of(text) == strip(split(text)[2])


(* ------------------------------- state -------------------------------- *)
VARIABLES
    phase,              \* where the main thread of the current run is
    max_retries,        \* --max_retries
    max_workers,        \* --max_workers
    num_files_to_try,   \* result of count_remote_files
    files_to_process,   \* work list of the current round (sorted)
    non_existent_files, \* names that returned 'failed_404'
    failed_files,       \* names that returned 'failed' in this round
    attempt,            \* rounds started so far in this run
    fut,                \* per file: the future submitted for it
    disk,               \* the target directory, per file
    remote,             \* per file: the content held by the server
    remote_count,       \* number of files the server lists (< 0: FTP error)
    downloaded_files,   \* os.listdir(download_dir) of the final check
    missing_files,      \* missing_files of the final check
    report,             \* which of the two final messages was printed
    printed,            \* the names listed under the final message
    exit_code,          \* exit status of the process, -1 while it runs
    hist,               \* per file: bookkeeping of the calls made so far
    externals,          \* removals by other processes during this run
    runs,               \* invocations of the tool so far
    \* parse_pubmed_baselines.py
    p_pc,               \* where the main thread of main() is
    p_max_workers,      \* max_workers, also the batch size
    xml_files,          \* the input files found by glob
    batch_num,          \* index of the current batch, from 0
    task,               \* per input file: its future and its result callback
    input_files,        \* per input file: whether it is in the input directory
    file_articles,      \* per input file: the PMIDs of its articles, in order
    processed_articles, \* keys of the dictionary of the current batch
    lock,               \* the file whose callback holds the lock, 0 if free
    completed_futures,  \* files whose callback appended its future
    batch_json,         \* the batch files written so far, as sets of keys
    \* misc/generate_embeddings_xml.py
    e_pc,               \* where the process is
    gz_file,            \* the .gz file in the directory, or no file
    temp_file,          \* the .temp file next to it, or no file
    progress_file,      \* progress.mmap on disk: the record it holds
    tracker,            \* current_file and current_pmid of the tracker object
    resume_mode,        \* resume_mode of process_xml_file
    found_resume_point, \* found_resume_point of process_xml_file
    idx,                \* index of the next article iterparse yields
    original,           \* the articles of the file before the first run
    interrupted,        \* a run was stopped after the tracker recorded a PMID
    e_runs              \* invocations of the program so far

download_vars == <<phase, max_retries, max_workers, num_files_to_try, files_to_process,
                   non_existent_files, failed_files, attempt, fut, disk,
                   remote, remote_count, downloaded_files, missing_files, report, printed, exit_code,
                   hist, externals, runs>>

\* parse_pubmed_baselines.main
parse_vars == <<p_pc, p_max_workers, xml_files, batch_num, task, input_files,
                file_articles, processed_articles, lock, completed_futures,
                batch_json>>

\* generate_embeddings_xml
embed_vars == <<e_pc, gz_file, temp_file, progress_file, tracker, resume_mode,
                found_resume_point, idx, original, interrupted, e_runs>>

vars == <<download_vars, parse_vars, embed_vars>>

session == <<max_retries, max_workers, num_files_to_try, files_to_process,
             non_existent_files, failed_files, attempt, downloaded_files,
             missing_files, report, printed, exit_code>>

Range(s) == {s[i] : i \in DOMAIN s}

\* A future that was not submitted in the current round.  Besides the locals
\* of the call (official_hash, total_size, the stream being read) it records
\* what the call met: the status of the checksum request, the kind of answer
\* to the file request ("" while none was made), whether a stale local file
\* was found, whether the call wrote or deleted the local file, and whether
\* an operation on the local file (open, remove) raised.
IdleFuture ==
    [pc |-> "idle", official_hash |-> <<>>, total_size |-> 0, stream |-> <<>>,
     broken |-> FALSE, status |-> "", md5_status |-> 0, body |-> "",
     stale |-> FALSE, modified |-> FALSE, io_error |-> FALSE, prev |-> "none",
     untouched |-> TRUE]

\* Per file: calls dispatched and 'failed' results in this run, results the
\* main thread took in this round, the status of the last call that returned,
\* and whether another process removed the file since then.
NoHistory ==
    [dispatches |-> 0, failures |-> 0, outcomes |-> 0, last |-> "none",
     touched |-> FALSE]

\* Lines 155-162: the names printed under the two headings of the error
\* message; nothing is listed before the report or under the success message.
NothingPrinted == [could_not |-> <<>>, missing |-> <<>>]

(* The three programs are separate processes.  While one of them is checked
   the state of the other two is held at these values. *)
NoArticles == <<>>
NoRecord == [named |-> FALSE, pmid |-> 0]
NoGz == [exists |-> FALSE, articles |-> <<>>]

ParseParked ==
    /\ p_pc = "off"
    /\ p_max_workers = 1
    /\ xml_files = <<>>
    /\ batch_num = 0
    /\ task = <<>>
    /\ input_files = <<>>
    /\ file_articles = <<>>
    /\ processed_articles = {}
    /\ lock = 0
    /\ completed_futures = {}
    /\ batch_json = <<>>

EmbedParked ==
    /\ e_pc = "off"
    /\ gz_file = NoGz
    /\ temp_file = NoGz
    /\ progress_file = NoRecord
    /\ tracker = NoRecord
    /\ resume_mode = FALSE
    /\ found_resume_point = FALSE
    /\ idx = 0
    /\ original = NoArticles
    /\ interrupted = FALSE
    /\ e_runs = 0

DownloadParked ==
    /\ phase = "off"
    /\ max_retries = 0
    /\ max_workers = 1
    /\ num_files_to_try = 0
    /\ files_to_process = <<>>
    /\ non_existent_files = {}
    /\ failed_files = <<>>
    /\ attempt = 0
    /\ fut = [f \in Files |-> IdleFuture]
    /\ disk = [f \in Files |-> NoFile]
    /\ remote = [f \in Files |-> <<>>]
    /\ remote_count = 0
    /\ downloaded_files = {}
    /\ missing_files = <<>>
    /\ report = ""
    /\ printed = NothingPrinted
    /\ exit_code = -1
    /\ hist = [f \in Files |-> NoHistory]
    /\ externals = 0
    /\ runs = 0

Init ==
    /\ phase = "start"
    /\ max_retries \in 0..MaxRetriesArg
    /\ max_workers \in 1..MaxWorkersArg
    /\ remote_count \in -1..MaxFiles
    /\ num_files_to_try = 0
    /\ files_to_process = <<>>
    /\ non_existent_files = {}
    /\ failed_files = <<>>
    /\ attempt = 0
    /\ fut = [f \in Files |-> IdleFuture]
    /\ disk \in [Files -> LocalStates]
    /\ remote \in [Files -> RemoteContents]
    /\ \A f \in Files :
          /\ f > remote_count => remote[f] = <<>>
          /\ (f > remote_count /\ remote_count > 0) => disk[f] = NoFile
    /\ downloaded_files = {}
    /\ missing_files = <<>>
    /\ report = ""
    /\ printed = NothingPrinted
    /\ exit_code = -1
    /\ hist = [f \in Files |-> NoHistory]
    /\ externals = 0
    /\ runs = 1
    /\ ParseParked
    /\ EmbedParked

(* -------------------- verify_and_download_file ------------------------ *)
\* Variant: the path is built without the file's name.
local_filepath_Shared(f) == 1

\* Line 47: os.path.join(local_dir, filename), one path per name.
local_filepath(f) == f

\* return status, filename
Return(f, call, status, file) ==
    /\ fut' = [fut EXCEPT ![f] = [call EXCEPT !.pc = "done", !.status = status,
                                              !.prev = hist[f].last,
                                              !.untouched = ~hist[f].touched]]
    /\ hist' = [hist EXCEPT ![f].last = status, ![f].touched = FALSE,
                            ![f].failures = @ + (IF status = "failed" THEN 1 ELSE 0)]
    /\ disk' = [disk EXCEPT ![local_filepath(f)] = file]

\* Variant: the except clause returns without removing the file.
Handler_Keep(f, call, file) == Return(f, call, "failed", file)

\* The except clauses that return 'failed' (lines 86-88 and 90-92):
\* if os.path.exists(local_filepath): os.remove(local_filepath).
\* os.remove may itself raise, and then the exception leaves the function.
Handler(f, call, file) ==
    IF file.exists
    THEN \/ Return(f, [call EXCEPT !.modified = TRUE], "failed", NoFile)
         \/ /\ fut' = [fut EXCEPT ![f] = [call EXCEPT !.pc = "raised",
                                                      !.io_error = TRUE]]
            /\ disk' = [disk EXCEPT ![local_filepath(f)] = file]
            /\ hist' = [hist EXCEPT ![f].last = "none"]
    ELSE Return(f, call, "failed", file)

\* What requests.get(md5_url) may produce: status 0 is an exception raised
\* by the request itself, otherwise the HTTP status and the body.
Md5Responses(f) ==
    {[status |-> 200, text |-> Md5Body(remote[f])],
     [status |-> 200, text |-> BadBody],
     [status |-> 404, text |-> <<>>],
     [status |-> 500, text |-> <<>>],
     [status |-> 0, text |-> <<>>]}

\* What requests.get(url, stream=True) may produce: the content-length header
\* if any, the bytes iter_content yields, and whether the stream then breaks.
\* The answer is sound when it is a 200 that yields the content the server
\* holds without breaking; it then declares the content's length or none.
\* An unbroken 200 that declares a length other than the number of bytes it
\* yields is a wrong length.
BodyKind(r, f) ==
    IF r.status = 404 THEN "404"
    ELSE IF /\ r.status = 200 /\ ~r.broken /\ r.has_length
            /\ r.content_length # Len(r.bytes)
    THEN "wronglength"
    ELSE IF r.status = 200 /\ r.bytes = remote[f] /\ ~r.broken
    THEN IF r.has_length THEN "sound" ELSE "nolength"
    ELSE "fault"

BodyResponses ==
    [status : {200}, has_length : BOOLEAN, content_length : 0..MaxLen,
     bytes : Contents, broken : BOOLEAN]
    \cup [status : {404, 500, 0}, has_length : {FALSE}, content_length : {0},
          bytes : {<<>>}, broken : {FALSE}]

Running == {f \in Files : fut[f].pc \in {"md5", "local", "get", "write", "verify"}}

\* Variant: the pool starts a thread for every submitted call.
PoolHasIdleThread_Unbounded == TRUE

\* ThreadPoolExecutor(max_workers=max_workers), line 128: at most max_workers
\* threads, each running one call at a time.
PoolHasIdleThread == Cardinality(Running) < max_workers

\* A thread of the pool takes the next queued call (lines 128-132).
StartWorker(f) ==
    /\ phase \in {"round", "crashing"}
    /\ fut[f].pc = "queued"
    /\ PoolHasIdleThread
    /\ \A g \in Files : fut[g].pc = "queued" => f <= g
    /\ fut' = [fut EXCEPT ![f].pc = "md5"]
    /\ UNCHANGED <<phase, session, disk, remote, remote_count, hist,
                   externals, runs, parse_vars, embed_vars>>

\* Lines 51-53: get the official checksum.
FetchMd5(f) ==
    /\ phase \in {"round", "crashing"}
    /\ fut[f].pc = "md5"
    /\ \E r \in Md5Responses(f) :
         LET call == [fut[f] EXCEPT !.md5_status = r.status] IN
         IF r.status = 404 THEN Return(f, call, "failed_404", disk[local_filepath(f)])
         ELSE IF r.status = 200 /\ ParseOk(r.text)
         THEN /\ fut' = [fut EXCEPT ![f] = [call EXCEPT
                            !.pc = "local",
                            !.official_hash = official_hash_of(r.text)]]
              /\ UNCHANGED <<disk, hist>>
         ELSE Handler(f, call, disk[local_filepath(f)])
    /\ UNCHANGED <<phase, session, remote, remote_count, externals, runs, parse_vars, embed_vars>>

\* Variant: the local digest is compared with the unstripped text.
LocalIsValid_Unstripped(file, official_hash) ==
    file.exists /\ HashEq(calculate_md5(file), <<" ">> \o official_hash)

\* Variant: an existing local file is kept without comparing checksums.
LocalIsValid_ExistsOnly(file, official_hash) == file.exists

\* Lines 56-58: the local file exists and its checksum is the official one.
LocalIsValid(file, official_hash) ==
    file.exists /\ HashEq(calculate_md5(file), official_hash)

\* Lines 56-62: an existing local file is kept if its checksum matches.
CheckLocal(f) ==
    /\ phase \in {"round", "crashing"}
    /\ fut[f].pc = "local"
    /\ IF disk[local_filepath(f)].exists
       THEN IF LocalIsValid(disk[local_filepath(f)], fut[f].official_hash)
            THEN Return(f, fut[f], "skipped_verified", disk[local_filepath(f)])
            ELSE \/ /\ fut' = [fut EXCEPT ![f].pc = "get", ![f].modified = TRUE,
                                             ![f].stale = TRUE]
                    /\ disk' = [disk EXCEPT ![local_filepath(f)] = NoFile]
                    /\ UNCHANGED hist
                 \/ Handler(f, [fut[f] EXCEPT !.stale = TRUE, !.io_error = TRUE],
                            disk[local_filepath(f)])
       ELSE /\ fut' = [fut EXCEPT ![f].pc = "get"]
            /\ UNCHANGED <<disk, hist>>
    /\ UNCHANGED <<phase, session, remote, remote_count, externals, runs, parse_vars, embed_vars>>

\* Lines 65-69: request the file, read content-length, open the local file.
GetBody(f) ==
    /\ phase \in {"round", "crashing"}
    /\ fut[f].pc = "get"
    /\ \E r \in BodyResponses :
         LET call == [fut[f] EXCEPT !.body = BodyKind(r, f)] IN
         IF r.status = 404 THEN Return(f, call, "failed_404", disk[local_filepath(f)])
         ELSE IF r.status = 200
         THEN \/ /\ fut' = [fut EXCEPT ![f] = [call EXCEPT
                               !.pc = "write",
                               !.total_size = IF r.has_length THEN r.content_length ELSE 0,
                               !.stream = r.bytes,
                               !.broken = r.broken,
                               !.modified = TRUE]]
                 /\ disk' = [disk EXCEPT ![local_filepath(f)] = FileOf(<<>>)]
                 /\ UNCHANGED hist
              \/ Handler(f, [call EXCEPT !.io_error = TRUE], disk[local_filepath(f)])
         ELSE Handler(f, call, disk[local_filepath(f)])
    /\ UNCHANGED <<phase, session, remote, remote_count, externals, runs, parse_vars, embed_vars>>

\* Lines 70-71: write the next chunk; the with block closes the file after
\* the last one, unless the stream raised.
WriteChunk(f) ==
    /\ phase \in {"round", "crashing"}
    /\ fut[f].pc = "write"
    /\ IF fut[f].stream # <<>>
       THEN /\ fut' = [fut EXCEPT ![f].stream = Tail(@)]
            /\ disk' = [disk EXCEPT ![local_filepath(f)] =
                          IF @.exists THEN FileOf(Append(@.data, Head(fut[f].stream)))
                          ELSE @]
            /\ UNCHANGED hist
       ELSE IF fut[f].broken
            THEN Handler(f, fut[f], disk[local_filepath(f)])
            ELSE /\ fut' = [fut EXCEPT ![f].pc = "verify"]
                 /\ UNCHANGED <<disk, hist>>
    /\ UNCHANGED <<phase, session, remote, remote_count, externals, runs, parse_vars, embed_vars>>

\* Lines 74-81: compare the size, then the checksum, of the written file.
Verify(f) ==
    /\ phase \in {"round", "crashing"}
    /\ fut[f].pc = "verify"
    /\ IF /\ disk[local_filepath(f)].exists
          /\ Len(disk[local_filepath(f)].data) = fut[f].total_size
          /\ HashEq(calculate_md5(disk[local_filepath(f)]), fut[f].official_hash)
       THEN Return(f, fut[f], "success", disk[local_filepath(f)])
       ELSE Handler(f, fut[f], disk[local_filepath(f)])
    /\ UNCHANGED <<phase, session, remote, remote_count, externals, runs, parse_vars, embed_vars>>

(* --------------- download_all_pubmed_baseline_files ------------------- *)
\* Variant: range(1, n), the last name of the inventory is left out.
RangeList_Short(n) == [i \in 1..(n - 1) |-> i]

\* [i for i in range(1, n + 1)]
RangeList(n) == [i \in 1..n |-> i]

\* sorted(failed_files)
sorted(s) == SortSeq(s, LAMBDA a, b : a < b)

\* list_pubmed_files.count_remote_files: None when the FTP session fails
\* (remote_count < 0 stands for a server that cannot be listed), otherwise the
\* number of names it counted.
count_remote_files ==
    IF remote_count < 0 THEN [none |-> TRUE, n |-> 0]
                        ELSE [none |-> FALSE, n |-> remote_count]

\* Variant: only a count of zero stops the run.
InventoryFailed_ZeroOnly(r) == ~r.none /\ r.n = 0

\* Line 108: not num_files_to_try
InventoryFailed(r) == r.none \/ r.n = 0

\* Lines 107-116: the inventory count, the exit when it failed or found
\* nothing, and the first work list.
CountRemoteFiles ==
    /\ phase = "start"
    /\ LET r == count_remote_files
           n == r.n IN
         /\ num_files_to_try' = n
         /\ IF InventoryFailed(r)
            THEN /\ phase' = "exited"
                 /\ exit_code' = 1
                 /\ files_to_process' = <<>>
            ELSE /\ phase' = "loop"
                 /\ exit_code' = -1
                 /\ files_to_process' = RangeList(n)
    /\ non_existent_files' = {}
    /\ UNCHANGED <<max_retries, max_workers, failed_files, attempt, fut,
                   disk, remote, remote_count, downloaded_files,
                   missing_files, report, printed, hist, externals, runs, parse_vars, embed_vars>>

\* Lines 118-132: the head of the retry loop.  The loop ends when range() is
\* used up or the work list is empty; otherwise every name of the work list
\* is submitted to a new executor.
\* Variant: the loop bound is off by one.
LoopContinues_OneMore == attempt <= max_retries /\ files_to_process # <<>>

\* Variant: the loop does not stop on an empty work list.
LoopContinues_NoEmptyCheck == attempt < max_retries

LoopContinues == attempt < max_retries /\ files_to_process # <<>>

LoopHead ==
    /\ phase = "loop"
    /\ IF LoopContinues
       THEN /\ phase' = "round"
            /\ attempt' = attempt + 1
            /\ failed_files' = <<>>
            /\ fut' = [f \in Files |->
                         IF f \in Range(files_to_process)
                         THEN [IdleFuture EXCEPT !.pc = "queued"]
                         ELSE IdleFuture]
            /\ hist' = [f \in Files |->
                          IF f \in Range(files_to_process)
                          THEN [hist[f] EXCEPT !.dispatches = @ + 1, !.outcomes = 0]
                          ELSE [hist[f] EXCEPT !.outcomes = 0]]
       ELSE /\ phase' = "final"
            /\ UNCHANGED <<attempt, failed_files, fut, hist>>
    /\ UNCHANGED <<max_retries, max_workers, num_files_to_try,
                   files_to_process, non_existent_files, disk, remote,
                   remote_count, downloaded_files, missing_files, report, printed,
                   exit_code, externals, runs, parse_vars, embed_vars>>

\* Variant: a 'failed_404' is retried like a 'failed'.
failed_after_Retry404(status, f) ==
    IF status \in {"failed", "failed_404"} THEN Append(failed_files, f)
    ELSE failed_files

\* Variant: a failed name is put on the retry list twice.
failed_after_Twice(status, f) ==
    IF status = "failed" THEN Append(Append(failed_files, f), f) ELSE failed_files

\* Variant: every collected name is retried.
failed_after_All(status, f) == Append(failed_files, f)

\* Lines 136-137.
failed_after(status, f) ==
    IF status = "failed" THEN Append(failed_files, f) ELSE failed_files

\* Variant: any status that starts with 'failed' is recorded as absent.
non_existent_after_AnyFailure(status, f) ==
    IF status \in {"failed", "failed_404"} THEN non_existent_files \cup {f}
    ELSE non_existent_files

\* Variant: a 'failed_404' is not recorded.
non_existent_after_Dropped(status, f) == non_existent_files

\* Lines 138-139.
non_existent_after(status, f) ==
    IF status = "failed_404" THEN non_existent_files \cup {f}
    ELSE non_existent_files

\* Lines 134-139: the as_completed loop takes one finished future.
\* future.result() re-raises what the call raised.
Collect(f) ==
    /\ phase = "round"
    /\ fut[f].pc \in {"done", "raised"}
    /\ IF fut[f].pc = "raised"
       THEN /\ phase' = "crashing"
            /\ UNCHANGED <<failed_files, non_existent_files>>
       ELSE /\ phase' = phase
            /\ failed_files' = failed_after(fut[f].status, f)
            /\ non_existent_files' = non_existent_after(fut[f].status, f)
    /\ fut' = [fut EXCEPT ![f] = [IdleFuture EXCEPT !.pc = "collected"]]
    /\ hist' = [hist EXCEPT ![f].outcomes = @ + 1]
    /\ UNCHANGED <<max_retries, max_workers, num_files_to_try,
                   files_to_process, attempt, disk, remote, remote_count,
                   downloaded_files, missing_files, report, printed, exit_code,
                   externals, runs, parse_vars, embed_vars>>

\* Variant: the round ends with the first result.
AllCollected_First == \E f \in Range(files_to_process) : fut[f].pc = "collected"

AllCollected == \A f \in Range(files_to_process) : fut[f].pc = "collected"

\* Variant: the work list is not replaced at the end of the round.
next_files_to_process_Stale == sorted(files_to_process)

\* Line 141: sorted(failed_files)
next_files_to_process == sorted(failed_files)

\* Line 141, after the with block has joined the pool.
EndRound ==
    /\ phase = "round"
    /\ AllCollected
    /\ files_to_process' = next_files_to_process
    /\ phase' = "loop"
    /\ fut' = [f \in Files |-> IdleFuture]
    /\ UNCHANGED <<max_retries, max_workers, num_files_to_try,
                   non_existent_files, failed_files, attempt, disk, remote,
                   remote_count, downloaded_files, missing_files, report, printed,
                   exit_code, hist, externals, runs, parse_vars, embed_vars>>

\* The exception of a call leaves the with block once the pool has run every
\* submitted call, and ends the process with a traceback.
Crash ==
    /\ phase = "crashing"
    /\ \A f \in Files : fut[f].pc \in {"idle", "done", "raised", "collected"}
    /\ phase' = "crashed"
    /\ exit_code' = 1
    /\ fut' = [f \in Files |-> IdleFuture]
    /\ UNCHANGED <<max_retries, max_workers, num_files_to_try,
                   files_to_process, non_existent_files, failed_files,
                   attempt, disk, remote, remote_count, downloaded_files,
                   missing_files, report, printed, hist, externals, runs, parse_vars, embed_vars>>

\* Lines 146-151.
all_possible_files == 1..num_files_to_try
\* Variant: the confirmed-absent names are not taken out.
expected_files_All == RangeList(num_files_to_try)

\* sorted(list(all_possible_files - non_existent_files))
expected_files ==
    SelectSeq(RangeList(num_files_to_try),
              LAMBDA f : f \in all_possible_files \ non_existent_files)
\* set(os.listdir(download_dir))
listdir == {f \in Files : disk[f].exists}
\* Variant: the listing is not consulted for the last name.
Missing_SkipLast(expected, listing) ==
    SelectSeq(expected, LAMBDA f : f \notin listing /\ f # expected[Len(expected)])

\* [f for f in expected_files if f not in downloaded_files]
Missing(expected, listing) == SelectSeq(expected, LAMBDA f : f \notin listing)

\* Variant: only the missing list decides the message.
HasErrors_MissingOnly(pending, missing) == missing # <<>>

\* Variant: the error message needs both lists to be non-empty.
HasErrors_Both(pending, missing) == pending # <<>> /\ missing # <<>>

\* Line 153: if files_to_process or missing_files
HasErrors(pending, missing) == pending # <<>> \/ missing # <<>>

\* Lines 146-165: the final check and the final message; the function then
\* returns and the process ends.
FinalCheck ==
    /\ phase = "final"
    /\ downloaded_files' = listdir
    /\ missing_files' = Missing(expected_files, listdir)
    /\ report' = IF HasErrors(files_to_process, missing_files')
                 THEN "errors" ELSE "success"
    /\ printed' = IF HasErrors(files_to_process, missing_files')
                  THEN [could_not |-> files_to_process, missing |-> missing_files']
                  ELSE NothingPrinted
    /\ phase' = "done"
    /\ exit_code' = 0
    /\ UNCHANGED <<max_retries, max_workers, num_files_to_try,
                   files_to_process, non_existent_files, failed_files,
                   attempt, fut, disk, remote, remote_count, hist, externals,
                   runs, parse_vars, embed_vars>>

(* --------------------------- the environment -------------------------- *)
InRun == phase \in {"loop", "round", "crashing", "final"}

\* Another process removes a file of the target directory.
ExternalRemove(f) ==
    /\ phase \in {"round", "final"}
    /\ externals < MaxExternal
    /\ disk[f].exists
    /\ disk' = [disk EXCEPT ![f] = NoFile]
    /\ hist' = [hist EXCEPT ![f].touched = TRUE]
    /\ externals' = externals + 1
    /\ UNCHANGED <<phase, session, fut, remote, remote_count, runs, parse_vars, embed_vars>>

\* The call is in the write loop of lines 68-71 on a response that yields the
\* server's content, and bytes of it are still to be written: the file at the
\* path is a proper prefix of the content.
PartlyWritten(f) ==
    /\ fut[f].pc = "write"
    /\ fut[f].body \in {"sound", "nolength"}
    /\ fut[f].stream # <<>>
    /\ disk[f].exists

\* The process is killed: every thread stops where it is.  A call that did
\* not return leaves no status; what is remembered of it is whether it was
\* stopped in the middle of writing its file.
Kill ==
    /\ InRun
    /\ phase' = "killed"
    /\ exit_code' = 1
    /\ hist' = [f \in Files |->
                  IF fut[f].pc \in {"idle", "queued", "done", "collected"} THEN hist[f]
                  ELSE IF PartlyWritten(f)
                  THEN [hist[f] EXCEPT !.last = "killed_partial"]
                  ELSE [hist[f] EXCEPT !.last = "none"]]
    /\ fut' = [f \in Files |-> IdleFuture]
    /\ UNCHANGED <<max_retries, max_workers, num_files_to_try,
                   files_to_process, non_existent_files, failed_files,
                   attempt, disk, remote, remote_count, downloaded_files,
                   missing_files, report, printed, externals, runs, parse_vars, embed_vars>>

\* The operator invokes the tool again on the same directory.
Rerun ==
    /\ phase \in {"done", "crashed", "killed"}
    /\ runs < MaxRuns
    /\ runs' = runs + 1
    /\ phase' = "start"
    /\ num_files_to_try' = 0
    /\ files_to_process' = <<>>
    /\ non_existent_files' = {}
    /\ failed_files' = <<>>
    /\ attempt' = 0
    /\ fut' = [f \in Files |-> IdleFuture]
    /\ downloaded_files' = {}
    /\ missing_files' = <<>>
    /\ report' = ""
    /\ printed' = NothingPrinted
    /\ exit_code' = -1
    /\ hist' = [f \in Files |-> [hist[f] EXCEPT !.dispatches = 0, !.failures = 0]]
    /\ externals' = 0
    /\ UNCHANGED <<max_retries, max_workers, disk, remote, remote_count,
                   parse_vars, embed_vars>>

Worker(f) ==
    \/ StartWorker(f)
    \/ FetchMd5(f)
    \/ CheckLocal(f)
    \/ GetBody(f)
    \/ WriteChunk(f)
    \/ Verify(f)

Next ==
    \/ CountRemoteFiles
    \/ LoopHead
    \/ \E f \in Files : Worker(f)
    \/ \E f \in Files : Collect(f)
    \/ EndRound
    \/ Crash
    \/ FinalCheck
    \/ \E f \in Files : ExternalRemove(f)

Spec == Init /\ [][Next]_vars

\* One file, and the tool invoked again after a run that ended or was killed.
InitOne == Init /\ remote_count = 1 /\ max_workers = 1

NextRerun == Next \/ Kill \/ Rerun

SpecRerun == InitOne /\ [][NextRerun]_vars

\* A run that starts on an empty target directory.
InitEmpty == Init /\ \A f \in Files : disk[f] = NoFile

SpecEmpty == InitEmpty /\ [][Next]_vars

\* The main thread and the threads of the pool keep running: a step that can
\* be taken is eventually taken.
SpecFair == Init /\ [][Next]_vars /\ WF_vars(Next)


(* ============================== claims ================================ *)
Inventory == 1..num_files_to_try
Succeeded(f) == hist[f].last \in {"success", "skipped_verified"}
Returned(f) == fut[f].pc = "done"
\* The checksum request of the call returned the official checksum.
ChecksumFetched(f) == fut[f].official_hash = hexdigest(remote[f])
\* No other process removed the file since the previous call returned.
Undisturbed(f) == fut[f].untouched /\ ~hist[f].touched

\* C1: with max_retries = N >= 1 a file is dispatched at most N times in a
\* run; a file whose every call returned 'failed' is in the final list of
\* files that could not be downloaded, and the loop ended after N rounds.
BoundedTermination ==
    \A f \in Files :
        /\ hist[f].dispatches <= max_retries
        /\ ( /\ phase = "done"
             /\ max_retries >= 1
             /\ hist[f].dispatches >= 1
             /\ hist[f].failures = hist[f].dispatches )
           => /\ f \in Range(files_to_process)
              /\ hist[f].dispatches = max_retries
              /\ attempt = max_retries
              /\ report = "errors"

\* Two rounds, one file failed in both, the other was downloaded.
BoundedTerminationWitness ==
    /\ phase = "done"
    /\ max_retries = 2
    /\ \E f, g \in Files :
         /\ hist[f].failures = 2
         /\ files_to_process = <<f>>
         /\ hist[g].last = "success"

\* C2: once a file is in non_existent_files it is never dispatched again in
\* the run and is never put in missing_files.
AbsenceIsSticky ==
    [][\A f \in Files :
          f \in non_existent_files =>
              /\ hist'[f].dispatches = hist[f].dispatches
              /\ f \notin Range(missing_files')]_vars

\* A file returned 'failed_404' in round 1 and the run went through round 2.
AbsenceIsStickyWitness ==
    /\ phase = "done"
    /\ attempt = 2
    /\ \E f \in non_existent_files : hist[f].dispatches = 1

\* C3: at every round boundary the work list, non_existent_files and the
\* files whose last result is 'success' or 'skipped_verified' together make
\* up the inventory.
Completeness ==
    phase \in {"loop", "final", "done"} =>
        Range(files_to_process) \cup non_existent_files
            \cup {f \in Inventory : Succeeded(f)} = Inventory

\* After a round: one file pending, one confirmed absent.
CompletenessWitness ==
    /\ phase = "loop"
    /\ attempt >= 1
    /\ files_to_process # <<>>
    /\ non_existent_files # {}

\* C4 as stated: after a clean report the files of the collection in the
\* directory are exactly the inventory minus non_existent_files.
CleanReportExact ==
    (phase = "done" /\ report = "success") =>
        downloaded_files \cap Inventory = Inventory \ non_existent_files

\* C4 amended: after a clean report every file of the inventory that is not
\* in non_existent_files is in the directory listing, and nothing is left to
\* retry; a file of non_existent_files may be in the listing.
CleanReportComplete ==
    (phase = "done" /\ report = "success") =>
        /\ (Inventory \ non_existent_files) \subseteq downloaded_files
        /\ files_to_process = <<>>
        /\ missing_files = <<>>

\* A clean report although a confirmed-absent file is in the directory.
CleanReportWitness ==
    /\ phase = "done"
    /\ report = "success"
    /\ non_existent_files \cap downloaded_files # {}
    /\ Inventory \ non_existent_files # {}

\* C5: a call on a file whose previous call returned 'success' or
\* 'skipped_verified', with the file left alone and the checksum fetched
\* again, returns 'skipped_verified' without requesting the file and without
\* writing or deleting the local file.
Idempotence ==
    \A f \in Files :
        ( /\ Returned(f)
          /\ fut[f].prev \in {"success", "skipped_verified"}
          /\ Undisturbed(f)
          /\ ChecksumFetched(f) )
        => /\ fut[f].status = "skipped_verified"
           /\ fut[f].body = ""
           /\ ~fut[f].modified

\* The second run verifies the file the first run downloaded.
IdempotenceWitness ==
    /\ runs = 2
    /\ \E f \in Files :
         /\ Returned(f)
         /\ fut[f].prev = "success"
         /\ fut[f].status = "skipped_verified"

\* C6 as stated: a call that finds a local file with a wrong checksum, and
\* whose download yields the server's content, returns 'success' and leaves
\* a file with the official checksum.
SelfHealing ==
    \A f \in Files :
        ( /\ Returned(f)
          /\ fut[f].stale
          /\ fut[f].body \in {"sound", "nolength"}
          /\ ~fut[f].io_error
          /\ Undisturbed(f) )
        => /\ fut[f].status = "success"
           /\ LocalIsValid(disk[f], hexdigest(remote[f]))

\* C7 as stated: a call that gets the checksum and, if it downloads, the
\* server's content, ends with a local file that has the official checksum.
Convergence ==
    \A f \in Files :
        ( /\ Returned(f)
          /\ ChecksumFetched(f)
          /\ fut[f].body \in {"", "sound", "nolength"}
          /\ ~fut[f].io_error
          /\ Undisturbed(f) )
        => LocalIsValid(disk[f], hexdigest(remote[f]))

\* C8: when a call returns 'failed' there is no file at its path.
NoCorruptFileLeft ==
    \A f \in Files :
        (Returned(f) /\ fut[f].status = "failed") => ~disk[f].exists

\* A call that wrote the file and then returned 'failed'.
NoCorruptFileLeftWitness ==
    \E f \in Files :
        /\ Returned(f)
        /\ fut[f].status = "failed"
        /\ fut[f].body # ""
        /\ fut[f].modified

\* C9 as stated: a call returns 'failed_404' exactly when the checksum
\* request got a 404, and then no request for the file was made.
NotFoundOnlyFromChecksum ==
    \A f \in Files :
        Returned(f) =>
            /\ (fut[f].status = "failed_404") <=> (fut[f].md5_status = 404)
            /\ (fut[f].status = "failed_404") => (fut[f].body = "")

\* C10: a round ends, and the next work list is computed, only when every
\* file submitted in the round has had its one result taken.
BatchBarrier ==
    [][(phase = "round" /\ (phase' \in {"loop", "final", "done"}
                           \/ files_to_process' # files_to_process))
          => \A f \in Range(files_to_process) :
                 /\ hist[f].outcomes = 1
                 /\ fut[f].pc = "collected"]_vars

\* A round of two files ended, the second file having finished first.
BatchBarrierWitness ==
    /\ phase = "loop"
    /\ attempt = 1
    /\ failed_files = <<2, 1>>
    /\ files_to_process = <<1, 2>>
    /\ \A f \in Inventory : hist[f].outcomes = 1

\* C11: no round runs on an empty work list, the rounds started never exceed
\* max_retries, and a run in which no call raises reaches the final check
\* (or has exited because the inventory could not be counted).
LoopTerminates ==
    /\ [](attempt <= max_retries)
    /\ [](phase = "round" => files_to_process # <<>>)
    /\ <>(\/ phase \in {"done", "exited"}
          \/ \E f \in Files : fut[f].pc = "raised")

\* The loop stopped before max_retries rounds because nothing was pending.
LoopTerminatesWitness ==
    /\ phase = "done"
    /\ attempt >= 1
    /\ attempt < max_retries
    /\ files_to_process = <<>>

\* C12: whatever goes wrong for one file, an error while removing its partial
\* file included, the call returns an outcome and the session goes on: no
\* call raises and the run is never ended by a file's failure.
FailuresContained ==
    /\ \A f \in Files : fut[f].pc # "raised"
    /\ phase \notin {"crashing", "crashed"}

\* C13: when the inventory count fails (count_remote_files returns None) the
\* run ends with a non-zero exit code and no file work was done: no call was
\* submitted, no request sent, and no file written or deleted.
AbortOnInventoryFailure ==
    /\ []((remote_count < 0 /\ phase # "start")
            => /\ phase = "exited"
               /\ exit_code > 0
               /\ \A f \in Files : fut[f] = IdleFuture /\ hist[f] = NoHistory)
    /\ [][remote_count < 0 => disk' = disk]_vars

\* The count failed over a directory that already holds a file.
AbortOnInventoryFailureWitness ==
    /\ remote_count < 0
    /\ phase = "exited"
    /\ \E f \in Files : disk[f].exists

\* C14: the process exits with code 0 exactly when the final report is clean;
\* a report with missing or still-failing files exits with a non-zero code.
ExitCodeReflectsReport ==
    phase = "done" =>
        /\ exit_code = 0 <=> report = "success"
        /\ (files_to_process # <<>> \/ missing_files # <<>>) => exit_code > 0

\* C15: the missing list of the final check is exactly the set of inventory
\* names, less the confirmed-absent ones, that are not in the directory as it
\* is when the listing is taken after the last round; a file reported
\* verified or downloaded and removed afterwards is in it.
MissingIsExact ==
    [][(phase = "final" /\ phase' = "done")
         => /\ downloaded_files' = {f \in Files : disk[f].exists}
            /\ Range(missing_files')
                 = {f \in Inventory \ non_existent_files : ~disk[f].exists}
            /\ Len(missing_files') = Cardinality(Range(missing_files'))]_vars

\* A file whose call reported success is listed as missing.
MissingIsExactWitness ==
    /\ phase = "done"
    /\ \E f \in Inventory : Succeeded(f) /\ f \in Range(missing_files)

\* C16: the run reports success exactly when no file is still failing and no
\* file is missing; otherwise it reports the error outcome and prints every
\* name of both lists.
ReportMatchesLists ==
    phase = "done" =>
        /\ report \in {"success", "errors"}
        /\ report = "success" <=> (files_to_process = <<>> /\ missing_files = <<>>)
        /\ report = "errors" => /\ printed.could_not = files_to_process
                                /\ printed.missing = missing_files

\* An error report with exactly one of the two lists non-empty.
ReportMatchesListsWitness ==
    /\ phase = "done"
    /\ report = "errors"
    /\ files_to_process = <<>>
    /\ missing_files # <<>>

OneRoundScenario ==
    ( /\ phase = "done"
      /\ max_retries >= 1
      /\ externals = 0
      /\ \A f \in Inventory : hist[f].failures = 0 )
    => /\ attempt = 1
       /\ missing_files = <<>>
       /\ files_to_process = <<>>
       /\ report = "success"
       /\ non_existent_files = {f \in Inventory : hist[f].last = "failed_404"}
       /\ \A f \in Inventory \ non_existent_files : hist[f].last = "success"
       /\ listdir = Inventory \ non_existent_files
       /\ Cardinality(listdir)
            = num_files_to_try - Cardinality(non_existent_files)

\* One file of two is confirmed absent and the other is downloaded at once.
OneRoundScenarioWitness ==
    /\ phase = "done"
    /\ max_retries >= 1
    /\ externals = 0
    /\ num_files_to_try = MaxFiles
    /\ \A f \in Inventory : hist[f].failures = 0
    /\ \E f \in Inventory : hist[f].last = "failed_404" /\ hist[f].dispatches = 1
    /\ \E f \in Inventory : hist[f].last = "success" /\ disk[f].exists

\* C19: when a round ends, the next work list is exactly the names whose
\* outcome in this round was 'failed'; a name that was verified or downloaded
\* is neither pending nor confirmed absent; a name that was not found is
\* confirmed absent and not pending.
RoundEndPartition ==
    [][(phase = "round" /\ phase' = "loop")
         => /\ Range(files_to_process')
                 = {f \in Range(files_to_process) : hist[f].last = "failed"}
            /\ Len(files_to_process') = Cardinality(Range(files_to_process'))
            /\ \A f \in Range(files_to_process) :
                 /\ Succeeded(f) => /\ f \notin Range(files_to_process')
                                    /\ f \notin non_existent_files'
                 /\ hist[f].last = "failed_404"
                      => /\ f \in non_existent_files'
                         /\ f \notin Range(files_to_process')]_vars

\* A round has ended with one name to retry and one name done.
RoundEndPartitionWitness ==
    /\ phase = "loop"
    /\ attempt >= 1
    /\ \E f \in Range(files_to_process) : hist[f].last = "failed"
    /\ \E g \in Inventory : /\ Succeeded(g)
                            /\ g \notin Range(files_to_process)
                            /\ g \notin non_existent_files

\* C20: the size check applies only when the response declares a content
\* length.  A response without one whose bytes match the official checksum
\* ends in 'success'; a response whose declared length differs from the
\* number of bytes written ends in 'failed' with the partial file deleted.
SizeCheckOnlyWhenDeclared ==
    \A f \in Files :
        (Returned(f) /\ ChecksumFetched(f) /\ ~fut[f].io_error /\ Undisturbed(f))
        => /\ fut[f].body = "nolength" => fut[f].status = "success"
           /\ fut[f].body = "wronglength"
                => fut[f].status = "failed" /\ ~disk[f].exists

StepOrder ==
    {<<"idle", "queued">>, <<"queued", "md5">>, <<"md5", "local">>,
     <<"local", "get">>, <<"get", "write">>, <<"write", "verify">>}
    \cup ({"md5", "local", "get", "write", "verify"} \X {"done", "raised"})
    \cup ({"done", "raised"} \X {"collected"})
    \cup ({"idle", "queued", "done", "raised", "collected"} \X {"idle"})

\* C22: within a round every name of the work list is submitted exactly once
\* (the lists hold no name twice and a name yields at most one result per
\* round), the steps of one file run in their order, and the file's path is
\* changed by no other step of the run than the steps of its own call.
OneWorkerPerFile ==
    /\ [](/\ Len(files_to_process) = Cardinality(Range(files_to_process))
          /\ Len(failed_files) = Cardinality(Range(failed_files))
          /\ \A f \in Files : hist[f].outcomes <= 1 /\ hist[f].dispatches <= attempt)
    /\ [][\A f \in Files :
            /\ fut'[f].pc # fut[f].pc => <<fut[f].pc, fut'[f].pc>> \in StepOrder
            /\ (disk'[f] # disk[f] /\ externals' = externals)
                 => /\ f \in Running
                    /\ \A g \in Files \ {f} : fut'[g] = fut[g]]_vars

\* Two files of the same round are in different steps at the same time.
OneWorkerPerFileWitness ==
    /\ phase = "round"
    /\ attempt >= 2
    /\ \E f, g \in Range(files_to_process) :
         f # g /\ fut[f].pc = "write" /\ fut[g].pc = "verify"

\* C23: at every moment the number of calls in progress is at most
\* max_workers, and a call waiting in a request never stops another one:
\* every call in progress can take its next step, and while a thread of the
\* pool is idle the next queued call can start.
BoundedConcurrency ==
    /\ Cardinality(Running) <= max_workers
    /\ phase = "round" =>
         /\ \A g \in Running : ENABLED Worker(g)
         /\ (PoolHasIdleThread /\ \E f \in Files : fut[f].pc = "queued")
              => \E f \in Files : ENABLED StartWorker(f)

\* Two calls are in progress at once, one of them waiting for the server.
BoundedConcurrencyWitness ==
    /\ phase = "round"
    /\ max_workers = MaxWorkersArg
    /\ Cardinality(Running) = MaxWorkersArg
    /\ \E f \in Running : fut[f].pc \in {"md5", "get"}

\* C24: a step of the call for one file creates, overwrites or deletes only
\* the path of that file; every other path of the target directory is the
\* same after the step as before it.
OwnPathOnly ==
    [][\A f \in Files :
         (f \in Running /\ fut'[f] # fut[f])
           => \A g \in Files \ {f} : disk'[g] = disk[g]]_vars

\* A call has downloaded its file next to a file that was there before and
\* whose own call has not started.
OwnPathOnlyWitness ==
    /\ phase = "round"
    /\ \E f, g \in Files :
         /\ f # g
         /\ fut[f].pc = "done" /\ fut[f].status = "success" /\ fut[f].modified
         /\ fut[g].pc = "queued" /\ disk[g].exists

\* C25: after the process was killed while a file was partly written, the
\* next run's call for that file never returns 'skipped_verified'; when it
\* gets the official checksum, and the file system raises no error, it finds
\* the local checksum different, removes the partial file and requests the
\* file again.
CrashRecovery ==
    \A f \in Files :
        (Returned(f) /\ fut[f].prev = "killed_partial" /\ Undisturbed(f))
        => /\ fut[f].status # "skipped_verified"
           /\ (ChecksumFetched(f) /\ ~fut[f].io_error)
                => /\ fut[f].stale
                   /\ fut[f].modified
                   /\ fut[f].body # ""

\* The run after the kill has replaced the partial file by a verified one.
CrashRecoveryWitness ==
    /\ runs = 2
    /\ \E f \in Files :
         /\ Returned(f)
         /\ fut[f].prev = "killed_partial"
         /\ fut[f].stale
         /\ fut[f].status = "success"
         /\ LocalIsValid(disk[f], hexdigest(remote[f]))

\* C26 as stated: when nothing outside the run changes the directory, every
\* name of the final still-failing list is also in the final missing list.
StillFailingIsMissing ==
    (phase = "done" /\ externals = 0)
    => Range(files_to_process) \subseteq Range(missing_files)

\* C26 amended: the same, for a run with max_retries >= 1, in which every
\* still-failing name had a call that returned 'failed'.
StillFailingIsMissingAfterRound ==
    (phase = "done" /\ externals = 0 /\ max_retries >= 1)
    => /\ Range(files_to_process) \subseteq Range(missing_files)
       /\ \A f \in Range(files_to_process) :
            hist[f].last = "failed" /\ ~disk[f].exists

\* A file that failed in every round is reported under both headings.
StillFailingIsMissingWitness ==
    /\ phase = "done"
    /\ externals = 0
    /\ attempt = MaxRetriesArg
    /\ \E f \in Range(files_to_process) :
         f \in Range(missing_files) /\ hist[f].failures = MaxRetriesArg

\* C27: after a clean report every file of the inventory that is not
\* confirmed absent was attempted in this run and its last call returned
\* 'skipped_verified' or 'success', that is, its local checksum was compared
\* with the official one and found equal.
CleanReportMeansVerified ==
    (phase = "done" /\ report = "success")
    => \A f \in Inventory \ non_existent_files :
           /\ hist[f].dispatches >= 1
           /\ Succeeded(f)

\* A clean report after one file was verified in place and another was
\* downloaded on a retry.
CleanReportMeansVerifiedWitness ==
    /\ phase = "done"
    /\ report = "success"
    /\ \E f \in Inventory : hist[f].last = "skipped_verified"
    /\ \E g \in Inventory : hist[g].last = "success" /\ hist[g].dispatches = 2

\* C28: with max_retries = 0 no round is run and no file is attempted or
\* touched by the run; the final report lists the whole inventory as not
\* downloaded and is never the success message.
ZeroRetriesNeverSucceeds ==
    /\ [](max_retries = 0
            => /\ attempt = 0
               /\ phase # "round"
               /\ \A f \in Files : fut[f] = IdleFuture /\ hist[f].dispatches = 0
               /\ phase = "done"
                    => /\ files_to_process = RangeList(num_files_to_try)
                       /\ report = "errors"
                       /\ printed.could_not = RangeList(num_files_to_try))
    /\ [][(max_retries = 0 /\ externals' = externals) => disk' = disk]_vars

\* The error report of a run with max_retries = 0 over a directory in which
\* every file of the inventory is already valid.
ZeroRetriesNeverSucceedsWitness ==
    /\ max_retries = 0
    /\ phase = "done"
    /\ num_files_to_try = MaxFiles
    /\ report = "errors"
    /\ missing_files = <<>>
    /\ \A f \in Inventory : LocalIsValid(disk[f], hexdigest(remote[f]))

(* ------------------ parse_pubmed_baselines.py: main ------------------- *)
MaxParseFiles == 3
MaxPmid == 2
CpuCount == 1

PFiles == 1..MaxParseFiles
\* The PMIDs of the articles pp.parse_medline_xml yields for a file.
ArticleLists == {<<>>, <<1>>} \cup {<<1, MaxPmid>>}

\* A file that is not part of the current batch.  parsed is the outcome of
\* parse_pubmed_file, i the index of the next article of the merge loop.
IdleTask == [pc |-> "idle", parsed |-> "", i |-> 0]

InitParse ==
    /\ DownloadParked
    /\ EmbedParked
    /\ p_pc = "glob"
    /\ p_max_workers = CpuCount * 2
    /\ xml_files = <<>>
    /\ batch_num = 0
    /\ task = [f \in PFiles |-> IdleTask]
    /\ input_files \in [PFiles -> BOOLEAN]
    /\ file_articles \in [PFiles -> ArticleLists]
    /\ \A f \in PFiles : ~input_files[f] => file_articles[f] = <<>>
    /\ processed_articles = {}
    /\ lock = 0
    /\ completed_futures = {}
    /\ batch_json = <<>>

\* Lines 156-160: list(Path(input_directory).glob('*.xml.gz')).
Glob ==
    /\ p_pc = "glob"
    /\ xml_files' = SelectSeq([i \in PFiles |-> i], LAMBDA f : input_files[f])
    /\ p_pc' = IF xml_files' = <<>> THEN "end" ELSE "batch"
    /\ UNCHANGED <<p_max_workers, batch_num, task, input_files, file_articles,
                   processed_articles, lock, completed_futures, batch_json>>
    /\ UNCHANGED <<download_vars, embed_vars>>

\* Lines 153, 170-171.
batch_size == p_max_workers
total_files == Len(xml_files)
num_batches == (total_files + batch_size - 1) \div batch_size

\* Lines 179-181: xml_files[start_idx:end_idx]
batch_files(b) ==
    LET start_idx == b * batch_size
        end_idx == IF (b + 1) * batch_size < total_files
                   THEN (b + 1) * batch_size ELSE total_files
    IN SubSeq(xml_files, start_idx + 1, end_idx)

\* Lines 178-233: the next batch gets a new dictionary and a new lock, and
\* every file of it is submitted with process_result as its done callback.
StartBatch ==
    /\ p_pc = "batch"
    /\ IF batch_num < num_batches
       THEN /\ processed_articles' = {}
            /\ lock' = 0
            /\ completed_futures' = {}
            /\ task' = [f \in PFiles |->
                          IF f \in Range(batch_files(batch_num))
                          THEN [IdleTask EXCEPT !.pc = "running"]
                          ELSE task[f]]
            /\ p_pc' = "as_completed"
       ELSE /\ p_pc' = "end"
            /\ UNCHANGED <<processed_articles, lock, completed_futures, task>>
    /\ UNCHANGED <<p_max_workers, xml_files, batch_num, input_files,
                   file_articles, batch_json>>
    /\ UNCHANGED <<download_vars, embed_vars>>

\* Lines 12-41: parse_pubmed_file returns the articles or raises; the future
\* is then finished and its waiters are notified.
Parse(f) ==
    /\ task[f].pc = "running"
    /\ \E outcome \in {"ok", "raised"} :
         task' = [task EXCEPT ![f].pc = "finished", ![f].parsed = outcome]
    /\ UNCHANGED <<p_pc, p_max_workers, xml_files, batch_num, input_files,
                   file_articles, processed_articles, lock, completed_futures,
                   batch_json>>
    /\ UNCHANGED <<download_vars, embed_vars>>

\* Lines 203-205: future.result() re-raises what the parse raised, otherwise
\* the callback takes the lock of the batch.
BeginCallback(f) ==
    /\ task[f].pc = "finished"
    /\ IF task[f].parsed = "raised"
       THEN /\ task' = [task EXCEPT ![f].pc = "append"]
            /\ UNCHANGED lock
       ELSE /\ lock = 0
            /\ lock' = f
            /\ task' = [task EXCEPT ![f].pc = "merging", ![f].i = 1]
    /\ UNCHANGED <<p_pc, p_max_workers, xml_files, batch_num, input_files,
                   file_articles, processed_articles, completed_futures,
                   batch_json>>
    /\ UNCHANGED <<download_vars, embed_vars>>

\* Lines 207-211: one article of the merge loop; an exception in it leaves the
\* with block, which releases the lock, for the except clause of line 221.
MergeArticle(f) ==
    /\ task[f].pc = "merging"
    /\ IF task[f].i <= Len(file_articles[f])
       THEN \/ /\ processed_articles' =
                    processed_articles \cup {file_articles[f][task[f].i]}
               /\ task' = [task EXCEPT ![f].i = @ + 1]
               /\ UNCHANGED lock
            \/ /\ task' = [task EXCEPT ![f].pc = "append"]
               /\ lock' = 0
               /\ UNCHANGED processed_articles
       ELSE /\ task' = [task EXCEPT ![f].pc = "removing"]
            /\ UNCHANGED <<processed_articles, lock>>
    /\ UNCHANGED <<p_pc, p_max_workers, xml_files, batch_num, input_files,
                   file_articles, completed_futures, batch_json>>
    /\ UNCHANGED <<download_vars, embed_vars>>

\* Lines 213-220: os.remove(file_path), whose failure is only a warning; the
\* with block then releases the lock.
RemoveInput(f) ==
    /\ task[f].pc = "removing"
    /\ \/ input_files' = [input_files EXCEPT ![f] = FALSE]
       \/ UNCHANGED input_files
    /\ lock' = 0
    /\ task' = [task EXCEPT ![f].pc = "append"]
    /\ UNCHANGED <<p_pc, p_max_workers, xml_files, batch_num, file_articles,
                   processed_articles, completed_futures, batch_json>>
    /\ UNCHANGED <<download_vars, embed_vars>>

\* Line 224: completed_futures.append(future); the callback is over.
AppendCompleted(f) ==
    /\ task[f].pc = "append"
    /\ completed_futures' = completed_futures \cup {f}
    /\ task' = [task EXCEPT ![f].pc = "cb_done"]
    /\ UNCHANGED <<p_pc, p_max_workers, xml_files, batch_num, input_files,
                   file_articles, processed_articles, lock, batch_json>>
    /\ UNCHANGED <<download_vars, embed_vars>>

\* Lines 236-237: as_completed yields a future once it is finished, which is
\* before its done callbacks are called.
AsCompleted ==
    /\ p_pc = "as_completed"
    /\ \A f \in Range(batch_files(batch_num)) : task[f].pc # "running"
    /\ p_pc' = "shutdown"
    /\ UNCHANGED <<p_max_workers, xml_files, batch_num, task, input_files,
                   file_articles, processed_articles, lock, completed_futures,
                   batch_json>>
    /\ UNCHANGED <<download_vars, embed_vars>>

\* Variant: leaving the with block does not wait for the worker threads.
WorkersJoined_NoWait == TRUE

\* Line 227: leaving the with block calls executor.shutdown(wait=True), which
\* joins the worker threads; a worker thread runs the done callbacks of its
\* future before it takes other work or ends.
WorkersJoined ==
    \A f \in Range(batch_files(batch_num)) : task[f].pc = "cb_done"

Shutdown ==
    /\ p_pc = "shutdown"
    /\ WorkersJoined
    /\ p_pc' = "save"
    /\ UNCHANGED <<p_max_workers, xml_files, batch_num, task, input_files,
                   file_articles, processed_articles, lock, completed_futures,
                   batch_json>>
    /\ UNCHANGED <<download_vars, embed_vars>>

\* Lines 243-250: save_to_json(processed_articles, batch_output), then the
\* next iteration of the loop over the batches.
SaveBatch ==
    /\ p_pc = "save"
    /\ batch_json' = Append(batch_json, processed_articles)
    /\ batch_num' = batch_num + 1
    /\ p_pc' = "batch"
    /\ UNCHANGED <<p_max_workers, xml_files, task, input_files, file_articles,
                   processed_articles, lock, completed_futures>>
    /\ UNCHANGED <<download_vars, embed_vars>>

ParseWorker(f) ==
    \/ Parse(f)
    \/ BeginCallback(f)
    \/ MergeArticle(f)
    \/ RemoveInput(f)
    \/ AppendCompleted(f)

NextParse ==
    \/ Glob
    \/ StartBatch
    \/ \E f \in PFiles : ParseWorker(f)
    \/ AsCompleted
    \/ Shutdown
    \/ SaveBatch

SpecParse == InitParse /\ [][NextParse]_vars

\* C29: an input file is deleted only by its own callback, holding the lock,
\* after its parse succeeded and the merge loop put every article of it into
\* the dictionary of the batch; a file whose parse raised stays in the input
\* directory; and a batch is written only when the callback of every file
\* of the batch is over.
DeleteAfterMergeSaveAfterCallbacks ==
    /\ [][\A f \in PFiles :
            (input_files[f] /\ ~input_files'[f])
              => /\ task[f].pc = "removing"
                 /\ task[f].parsed = "ok"
                 /\ lock = f
                 /\ task[f].i > Len(file_articles[f])
                 /\ Range(file_articles[f]) \subseteq processed_articles]_vars
    /\ [](\A f \in Range(xml_files) : task[f].parsed = "raised" => input_files[f])
    /\ [][Len(batch_json') > Len(batch_json)
            => \A f \in Range(batch_files(batch_num)) :
                   /\ task[f].pc = "cb_done"
                   /\ f \in completed_futures]_vars

\* A batch has been written in which one file was parsed, merged and deleted
\* and the parse of another raised.
DeleteAfterMergeSaveAfterCallbacksWitness ==
    /\ Len(batch_json) >= 1
    /\ \E f, g \in Range(batch_files(0)) :
         /\ task[f].parsed = "ok" /\ ~input_files[f] /\ Len(file_articles[f]) = 2
         /\ task[g].parsed = "raised" /\ input_files[g]

(* ---------------- misc/generate_embeddings_xml.py --------------------- *)
MaxArticles == 3
MaxEmbedRuns == 2

\* An article element: its PMID (0 when it has none), whether it has abstract
\* text, and the number of abstract_embeddings elements it carries.  The
\* article at position i of the file has PMID i.
ArticleAt(i) ==
    [pmid : {0, i}, abstract : BOOLEAN, embeddings : {0}]
ArticleFiles ==
    UNION {{s \in [1..n -> UNION {ArticleAt(i) : i \in 1..MaxArticles}] :
              \A i \in 1..n : s[i] \in ArticleAt(i)} : n \in 0..MaxArticles}

\* Lines 32-58 and 293: the directory holds one .gz file that was never
\* processed, and no progress.mmap yet; MmapProgressTracker() creates it
\* filled with zeros.
InitEmbed ==
    /\ DownloadParked
    /\ ParseParked
    /\ e_pc = "start"
    /\ \E arts \in ArticleFiles :
         /\ gz_file = [exists |-> TRUE, articles |-> arts]
         /\ original = arts
    /\ temp_file = NoGz
    /\ progress_file = NoRecord
    /\ tracker = NoRecord
    /\ resume_mode = FALSE
    /\ found_resume_point = FALSE
    /\ idx = 0
    /\ interrupted = FALSE
    /\ e_runs = 1

\* Lines 40-81: the tracker object loads the record of progress.mmap; an
\* empty file name leaves current_file and current_pmid at None.
LoadTracker ==
    /\ e_pc = "start"
    /\ tracker' = IF progress_file.named THEN progress_file ELSE NoRecord
    /\ e_pc' = "list"
    /\ UNCHANGED <<gz_file, temp_file, progress_file, resume_mode,
                   found_resume_point, idx, original, interrupted, e_runs>>
    /\ UNCHANGED <<download_vars, parse_vars>>

\* Lines 169-180: the sorted list of the names that end in '.gz'; the .temp
\* file is not one of them.
ListFiles ==
    /\ e_pc = "list"
    /\ e_pc' = IF gz_file.exists THEN "open" ELSE "clear"
    /\ UNCHANGED <<gz_file, temp_file, progress_file, tracker, resume_mode,
                   found_resume_point, idx, original, interrupted, e_runs>>
    /\ UNCHANGED <<download_vars, parse_vars>>

\* Lines 193-209: resume_mode needs the tracker to name this file and a
\* non-empty PMID; the temporary file is opened with 'wb', which empties it.
OpenFile ==
    /\ e_pc = "open"
    /\ resume_mode' = (tracker.named /\ tracker.pmid # 0)
    /\ found_resume_point' = ~resume_mode'
    /\ temp_file' = [exists |-> TRUE, articles |-> <<>>]
    /\ idx' = 1
    /\ e_pc' = "scan"
    /\ UNCHANGED <<gz_file, progress_file, tracker, original, interrupted,
                   e_runs>>
    /\ UNCHANGED <<download_vars, parse_vars>>

\* f_out.write(ET.tostring(elem))
WriteElement(a) == temp_file' = [temp_file EXCEPT !.articles = Append(@, a)]

\* Lines 244-267: add the abstract_embeddings element; with abstract text the
\* embedding is computed and the tracker records (file, pmid), unless
\* encode raises; then the element is written.
EmbedAndWrite(a) ==
    /\ WriteElement([a EXCEPT !.embeddings = @ + 1])
    /\ IF a.abstract
       THEN \/ /\ tracker' = [named |-> TRUE, pmid |-> a.pmid]
               /\ progress_file' = [named |-> TRUE, pmid |-> a.pmid]
            \/ UNCHANGED <<tracker, progress_file>>
       ELSE UNCHANGED <<tracker, progress_file>>

\* Lines 214-270: the next article element of the input file.
ProcessArticle ==
    /\ e_pc = "scan"
    /\ idx <= Len(gz_file.articles)
    /\ LET a == gz_file.articles[idx] IN
         IF a.pmid = 0
         THEN UNCHANGED <<temp_file, tracker, progress_file, found_resume_point>>
         ELSE IF resume_mode /\ ~found_resume_point
         THEN IF a.pmid = tracker.pmid
              THEN /\ found_resume_point' = TRUE
                   /\ EmbedAndWrite(a)
              ELSE /\ WriteElement(a)
                   /\ UNCHANGED <<tracker, progress_file, found_resume_point>>
         ELSE /\ EmbedAndWrite(a)
              /\ UNCHANGED found_resume_point
    /\ idx' = idx + 1
    /\ UNCHANGED <<e_pc, gz_file, resume_mode, original, interrupted, e_runs>>
    /\ UNCHANGED <<download_vars, parse_vars>>

\* Lines 272-277: the input is used up, both files are closed and the
\* original is removed.
RemoveOriginal ==
    /\ e_pc = "scan"
    /\ idx > Len(gz_file.articles)
    /\ gz_file' = NoGz
    /\ e_pc' = "rename"
    /\ UNCHANGED <<temp_file, progress_file, tracker, resume_mode,
                   found_resume_point, idx, original, interrupted, e_runs>>
    /\ UNCHANGED <<download_vars, parse_vars>>

\* Line 278: os.rename(temp_output_path, file_path)
RenameTemp ==
    /\ e_pc = "rename"
    /\ gz_file' = temp_file
    /\ temp_file' = NoGz
    /\ e_pc' = "clear"
    /\ UNCHANGED <<progress_file, tracker, resume_mode, found_resume_point,
                   idx, original, interrupted, e_runs>>
    /\ UNCHANGED <<download_vars, parse_vars>>

\* Lines 107-119 and 308: progress_tracker.clear() after the last file.
ClearTracker ==
    /\ e_pc = "clear"
    /\ tracker' = NoRecord
    /\ progress_file' = NoRecord
    /\ e_pc' = "done"
    /\ UNCHANGED <<gz_file, temp_file, resume_mode, found_resume_point, idx,
                   original, interrupted, e_runs>>
    /\ UNCHANGED <<download_vars, parse_vars>>

\* The process is stopped (Ctrl-C of lines 311-313, or a kill) while the file
\* is processed: the files stay as they are, the record of progress.mmap was
\* flushed by update (lines 102-103).
Interrupt ==
    /\ e_pc = "scan"
    /\ e_pc' = "stopped"
    /\ interrupted' = (interrupted \/ progress_file.named)
    /\ UNCHANGED <<gz_file, temp_file, progress_file, tracker, resume_mode,
                   found_resume_point, idx, original, e_runs>>
    /\ UNCHANGED <<download_vars, parse_vars>>

\* The program is started again on the same directory.
Restart ==
    /\ e_pc = "stopped"
    /\ e_runs < MaxEmbedRuns
    /\ e_runs' = e_runs + 1
    /\ e_pc' = "start"
    /\ tracker' = NoRecord
    /\ resume_mode' = FALSE
    /\ found_resume_point' = FALSE
    /\ idx' = 0
    /\ UNCHANGED <<gz_file, temp_file, progress_file, original, interrupted>>
    /\ UNCHANGED <<download_vars, parse_vars>>

NextEmbed ==
    \/ LoadTracker
    \/ ListFiles
    \/ OpenFile
    \/ ProcessArticle
    \/ RemoveOriginal
    \/ RenameTemp
    \/ ClearTracker
    \/ Interrupt
    \/ Restart

SpecEmbed == InitEmbed /\ [][NextEmbed]_vars

\* The file an uninterrupted run writes: every article that has a PMID, each
\* with one abstract_embeddings element more.
Embedded(articles) ==
    LET kept == SelectSeq(articles, LAMBDA a : a.pmid # 0)
    IN [i \in 1..Len(kept) |-> [kept[i] EXCEPT !.embeddings = @ + 1]]

\* C30: when the processing of a file was interrupted after the tracker
\* recorded (file, pmid) and the program was started again, the file finally
\* written is the one an uninterrupted run writes: every article that has a
\* PMID carries an abstract_embeddings element.
ResumeEquivalence ==
    (e_pc = "done" /\ interrupted)
    => /\ gz_file.exists
       /\ gz_file.articles = Embedded(original)
       /\ \A i \in 1..Len(gz_file.articles) : gz_file.articles[i].embeddings >= 1

====
